---- MODULE Spec2Model ----
\* Particle field simulator of the fish-mouth cross-flow filter
\* (AdvancedParticleSystem in src/App.tsx) together with the controls of App
\* that drive it.
\*
\* Numbers.  Lengths, velocities, random draws and render scales are fixed-point
\* numbers in thousandths (1000 = 1.0); flowRate is in tenths (10 = 1.0x) and a
\* frame's delta in milliseconds.  Every product of two fixed-point numbers is
\* rounded to the nearest thousandth (RoundDiv).
\*
\* Particles.  The body of particles.forEach reads and writes only the particle
\* it is handed, the four write counters and the scratch object `dummy`, and
\* no statement assigns a particle's `type` after the array is built.  The
\* model keeps the `type` every one of the 800 particles is built with
\* (ItemTypes) and the write counters of a whole pass, and the full record of
\* one particle, the one at index k, which Init picks among TrackedIndices.
EXTENDS Integers, Sequences, FiniteSets

VARIABLES
    simulationState, \* App state: flowRate, particleDensity, isRunning
    k,               \* index of the particle whose record is p
    p,               \* particles[k]: position, velocity, type, rotation,
                     \* rotationSpeed, filtered
    writeIdx,        \* waterIdx, plasticIdx, algaeIdx, sedimentIdx as the last
                     \* running frame left them: the number of setMatrixAt
                     \* calls made on each mesh, with write indices 0, 1, ...
    pose,            \* what the last running frame wrote for particle k: mesh,
                     \* write index, and the position, rotation and scale of dummy
    delta,           \* the delta of the last useFrame call (0 before the first)
    lastFrame,       \* the path the last useFrame call took for particle k:
                     \* "none" before the first call, "skipped" (paused),
                     \* "advanced" (no reset), "recycledDepth" (reset, z < END_Z),
                     \* "recycledSide" (reset, |x| > 5 only)
    age,             \* running frames since particle k was spawned, counted
                     \* up to MaxAge
    messages,        \* App state: the chat messages, oldest first
    input,           \* App state: the text of the chat input, character by
                     \* character
    isTyping,        \* App state: the "typing" indicator of the chat
    request,         \* the calls of askBiomimicryExpert that handleSendMessage
                     \* is awaiting, each with its prompt
    twin,            \* a second run of the simulator, for comparison: its
                     \* particleDensity, its particle k, what its last
                     \* running frame wrote for it, and its running frames
                     \* (<<>> where no second run is made)
    order,           \* the order in which the last running frame visited the
                     \* particles ("index" is that of particles.forEach)
    clock            \* parity of the frames the host has rendered, kept where
                     \* the host is required to keep rendering

simVars == <<simulationState, k, p, writeIdx, pose, delta, lastFrame, age>>

chatVars == <<messages, input, isTyping, request>>

vars == <<simulationState, k, p, writeIdx, pose, delta, lastFrame, age,
          messages, input, isTyping, request, twin, order, clock>>

----------------------------------------------------------------------------
\* Bounds of the model

\* a particle is followed for at most MaxAge running frames per life
MaxAge == 8
\* a spinning particle is followed while rotation.x stays within MaxRotation
MaxRotation == 1100

\* The sets below are values of Math.random(), in thousandths (it never
\* returns 1)
\* Math.random() for the spawn radius
RadiusDraws == {500, 960}
\* Math.random() for the lateral velocity jitter (500 gives none)
JitterDraws == {500, 990}
\* Math.random() for the axial velocity and for the spawn depth
AxialDraws == {0, 990}
\* Math.random() for rotationSpeed
SpinDraws == {0, 990}
\* the three Math.random() values of the initial Euler rotation
RotationDraws == {[x |-> 500, y |-> 990, z |-> 0]}
\* <<cos, sin>> of the spawn angle Math.random() * 2 PI
Directions == {<<1000, 0>>, <<0, 1000>>}
\* positions of the flow slider (min 0.1, max 5.0, step 0.1), in tenths
FlowRates == {10, 50}
\* frame deltas handed to useFrame, in milliseconds
Deltas == {100}
\* indices of the particle that is followed: one in each band of the population
TrackedIndices == {0, 500, 600, 700}

----------------------------------------------------------------------------
\* Arithmetic

Abs(a) == IF a < 0 THEN -a ELSE a

Max(a, b) == IF a >= b THEN a ELSE b

\* a / b rounded to the nearest integer, b > 0
RoundDiv(a, b) == (2 * a + b) \div (2 * b)

RECURSIVE SqrtIter(_, _)
SqrtIter(n, r) ==
    LET nxt == (r + n \div r) \div 2
    IN  IF nxt >= r THEN r ELSE SqrtIter(n, nxt)

\* Math.sqrt on a non-negative integer, rounded down
Sqrt(n) == IF n = 0 THEN 0 ELSE SqrtIter(n, n)

----------------------------------------------------------------------------
\* Types and constants of the program

undefined == "undefined"

\* enum ParticleType, as declared
ParticleType == [WATER |-> "WATER", MICROPLASTIC |-> "MICROPLASTIC"]

\* the property access ParticleType.<name> of the compiled enum object: a name
\* the enum does not declare reads as undefined
Member(name) == IF name \in DOMAIN ParticleType THEN ParticleType[name] ELSE undefined

COUNT_WATER == 500
COUNT_PLASTIC == 100
COUNT_ALGAE == 100
COUNT_SEDIMENT == 100

total == COUNT_WATER + COUNT_PLASTIC + COUNT_ALGAE + COUNT_SEDIMENT

START_Z == 10000
END_Z == -15000
CONE_SLOPE == 150
INITIAL_RADIUS == 2500

\* the type a particle gets from its index
TypeOfIndex(i) ==
    IF i >= COUNT_WATER /\ i < COUNT_WATER + COUNT_PLASTIC
        THEN Member("MICROPLASTIC")
    ELSE IF i >= COUNT_WATER + COUNT_PLASTIC
            /\ i < COUNT_WATER + COUNT_PLASTIC + COUNT_ALGAE
        THEN Member("ALGAE")
    ELSE IF i >= COUNT_WATER + COUNT_PLASTIC + COUNT_ALGAE
        THEN Member("SEDIMENT")
    ELSE Member("WATER")

\* items[i].type for every index i of the particles array
ItemTypes == [i \in 0..(total - 1) |-> TypeOfIndex(i)]

\* the record pushed for index i, from its random draws
NewParticle(i, dir, ur, uz, uvx, uvy, uvz, rot, urs) ==
    LET radius == RoundDiv(ur * INITIAL_RADIUS, 1000)
    IN  [position |-> [x |-> RoundDiv(dir[1] * radius, 1000),
                       y |-> RoundDiv(dir[2] * radius, 1000),
                       z |-> START_Z + uz * 20],
         velocity |-> [x |-> RoundDiv((uvx - 500) * 100, 1000),
                       y |-> RoundDiv((uvy - 500) * 100, 1000),
                       z |-> -(500 + RoundDiv(uvz * 500, 1000))],
         type |-> ItemTypes[i],
         rotation |-> rot,
         rotationSpeed |-> RoundDiv(urs * 100, 1000),
         filtered |-> FALSE]

----------------------------------------------------------------------------
\* One iteration of particles.forEach, step by step

\* speedMultiplier with flowRate * delta truncated to an integer before the
\* factor 10
SpeedMultiplierTruncated(flowRate, dt) == ((flowRate * dt) \div 10000) * 10000

\* SpeedMultiplier without the factor 10
SpeedMultiplierNoTen(flowRate, dt) == (flowRate * dt) \div 10

\* flowRate * 10 * delta, in thousandths
SpeedMultiplier(flowRate, dt) == flowRate * dt

\* 1. Move Forward: position.addScaledVector(velocity, speedMultiplier)
MoveForward(q, sm) ==
    [q EXCEPT !.position =
        [x |-> q.position.x + RoundDiv(q.velocity.x * sm, 1000),
         y |-> q.position.y + RoundDiv(q.velocity.y * sm, 1000),
         z |-> q.position.z + RoundDiv(q.velocity.z * sm, 1000)]]

\* 2. Rotate
Rotate(q) ==
    IF q.type # Member("WATER")
        THEN [q EXCEPT !.rotation.x = @ + q.rotationSpeed,
                       !.rotation.y = @ + q.rotationSpeed]
        ELSE q

\* currentConeRadius at depth START_Z - z
ConeRadius(z) ==
    LET depth == START_Z - z
    IN  Max(500, INITIAL_RADIUS - RoundDiv(depth * CONE_SLOPE, 1000))

\* x^2 + y^2; the comparisons of distFromCenter are made on squares, exactly
DistSq(q) == q.position.x * q.position.x + q.position.y * q.position.y

\* distFromCenter, rounded down
DistFromCenter(q) == Sqrt(DistSq(q))

\* Math.cos(Math.atan2(y, x)) and Math.sin(Math.atan2(y, x)); atan2(0, 0) is 0
CosAtan2(y, x) ==
    IF x = 0 /\ y = 0 THEN 1000 ELSE RoundDiv(x * 1000, Sqrt(x * x + y * y))

SinAtan2(y, x) ==
    IF x = 0 /\ y = 0 THEN 0 ELSE RoundDiv(y * 1000, Sqrt(x * x + y * y))

InBand(q) == q.position.z < 5000 /\ q.position.z > -10000

\* distFromCenter >= currentConeRadius - 0.2
TouchesWall(q) ==
    LET c == ConeRadius(q.position.z) - 200
    IN  c <= 0 \/ DistSq(q) >= c * c

\* Ricochet reversing the axial velocity instead of amplifying it
RicochetBounce(q) ==
    LET cr == ConeRadius(q.position.z)
        c  == CosAtan2(q.position.y, q.position.x)
        s  == SinAtan2(q.position.y, q.position.x)
    IN  [q EXCEPT !.position.x = RoundDiv(c * (cr - 300), 1000),
                  !.position.y = RoundDiv(s * (cr - 300), 1000),
                  !.velocity.x = @ - RoundDiv(c * 500, 1000),
                  !.velocity.y = @ - RoundDiv(s * 500, 1000),
                  !.velocity.z = RoundDiv(@ * (-11), 10)]

\* SOLIDS ricochet
Ricochet(q) ==
    LET cr == ConeRadius(q.position.z)
        c  == CosAtan2(q.position.y, q.position.x)
        s  == SinAtan2(q.position.y, q.position.x)
    IN  [q EXCEPT !.position.x = RoundDiv(c * (cr - 300), 1000),
                  !.position.y = RoundDiv(s * (cr - 300), 1000),
                  !.velocity.x = @ - RoundDiv(c * 500, 1000),
                  !.velocity.y = @ - RoundDiv(s * 500, 1000),
                  !.velocity.z = RoundDiv(@ * 11, 10)]

\* Focus applied only while the particle is within 0.2 of the wall
FocusAtWallOnly(q) ==
    IF TouchesWall(q)
        THEN [q EXCEPT !.position.x = @ - RoundDiv(@, 100),
                       !.position.y = @ - RoundDiv(@, 100)]
        ELSE q

\* Hydrodynamic focusing: lerp(x, 0, 0.01) = x + (0 - x) * 0.01
Focus(q) ==
    [q EXCEPT !.position.x = @ - RoundDiv(@, 100),
              !.position.y = @ - RoundDiv(@, 100)]

\* distFromCenter > currentConeRadius * 0.8
BeyondPermeationRing(q) ==
    LET cr == ConeRadius(q.position.z)
    IN  25 * DistSq(q) > 16 * cr * cr

\* distFromCenter > currentConeRadius
BeyondCone(q) ==
    LET cr == ConeRadius(q.position.z)
    IN  DistSq(q) > cr * cr

\* Permeate without the test of the permeated flag
PermeateEveryFrame(q) ==
    IF BeyondPermeationRing(q)
        THEN [q EXCEPT !.velocity.x = @ + RoundDiv(CosAtan2(q.position.y, q.position.x) * 50, 1000),
                       !.velocity.y = @ + RoundDiv(SinAtan2(q.position.y, q.position.x) * 50, 1000),
                       !.velocity.z = RoundDiv(@ * 9, 10),
                       !.filtered = IF BeyondCone(q) THEN TRUE ELSE @]
        ELSE q

\* Water Permeation
Permeate(q) ==
    IF BeyondPermeationRing(q) /\ ~q.filtered
        THEN [q EXCEPT !.velocity.x = @ + RoundDiv(CosAtan2(q.position.y, q.position.x) * 50, 1000),
                       !.velocity.y = @ + RoundDiv(SinAtan2(q.position.y, q.position.x) * 50, 1000),
                       !.velocity.z = RoundDiv(@ * 9, 10),
                       !.filtered = IF BeyondCone(q) THEN TRUE ELSE @]
        ELSE q

\* FilterInteraction clearing the permeated flag of a particle outside the band
FilterInteractionClearing(q) ==
    IF InBand(q)
        THEN IF q.type # Member("WATER")
                THEN Focus(IF TouchesWall(q) THEN Ricochet(q) ELSE q)
                ELSE Permeate(q)
        ELSE [q EXCEPT !.filtered = FALSE]

\* 3. Filter Interaction
FilterInteraction(q) ==
    IF InBand(q)
        THEN IF q.type # Member("WATER")
                THEN Focus(IF TouchesWall(q) THEN Ricochet(q) ELSE q)
                ELSE Permeate(q)
        ELSE q

\* the particle as it stands when the reset condition is tested
BeforeReset(q, sm) == FilterInteraction(Rotate(MoveForward(q, sm)))

\* LeftDomain without its depth test
LeftDomainSideOnly(q) == Abs(q.position.x) > 5000

\* 4. Reset: the condition
LeftDomain(q) == q.position.z < END_Z \/ Abs(q.position.x) > 5000

\* Reset with the spawn depth span of the constructor (20 instead of 5)
ResetLikeInit(q, dir, ur, uz, uvx, uvy, uvz) ==
    LET r == RoundDiv(ur * INITIAL_RADIUS, 1000)
    IN  [q EXCEPT !.position = [x |-> RoundDiv(dir[1] * r, 1000),
                                y |-> RoundDiv(dir[2] * r, 1000),
                                z |-> START_Z + uz * 20],
                  !.velocity = [x |-> RoundDiv((uvx - 500) * 100, 1000),
                                y |-> RoundDiv((uvy - 500) * 100, 1000),
                                z |-> -(500 + RoundDiv(uvz * 500, 1000))],
                  !.filtered = FALSE]

\* 4. Reset: the respawn, from its six random draws
Reset(q, dir, ur, uz, uvx, uvy, uvz) ==
    LET r == RoundDiv(ur * INITIAL_RADIUS, 1000)
    IN  [q EXCEPT !.position = [x |-> RoundDiv(dir[1] * r, 1000),
                                y |-> RoundDiv(dir[2] * r, 1000),
                                z |-> START_Z + uz * 5],
                  !.velocity = [x |-> RoundDiv((uvx - 500) * 100, 1000),
                                y |-> RoundDiv((uvy - 500) * 100, 1000),
                                z |-> -(500 + RoundDiv(uvz * 500, 1000))],
                  !.filtered = FALSE]

\* Scale/Visibility logic: the four assignments in their order, in thousandths
\* (8 is 0.008)
Scale(type, filtered) ==
    LET s0 == 80
        s1 == IF type = Member("MICROPLASTIC") THEN 150 ELSE s0
        s2 == IF type = Member("ALGAE") THEN 120 ELSE s1
        s3 == IF type = Member("SEDIMENT") THEN 100 ELSE s2
    IN  IF type = Member("WATER") /\ filtered THEN RoundDiv(s3, 10) ELSE s3

\* the mesh whose setMatrixAt the if / else-if chain calls for a type
MeshOf(type) ==
    IF type = Member("WATER") THEN "water"
    ELSE IF type = Member("MICROPLASTIC") THEN "plastic"
    ELSE IF type = Member("ALGAE") THEN "algae"
    ELSE IF type = Member("SEDIMENT") THEN "sediment"
    ELSE "none"

Meshes == {"water", "plastic", "algae", "sediment"}

\* the count argument of each instancedMesh
Capacity(m) ==
    CASE m = "water" -> COUNT_WATER
      [] m = "plastic" -> COUNT_PLASTIC
      [] m = "algae" -> COUNT_ALGAE
      [] m = "sediment" -> COUNT_SEDIMENT

\* the particles dispatched to mesh m among those forEach visits before index n
VisitedFor(m, n) == {i \in 0..(n - 1) : MeshOf(ItemTypes[i]) = m}

\* the four write counters when forEach returns: every setMatrixAt call uses
\* its mesh's counter as the write index and then increments it
CountersAfterLoop == [m \in Meshes |-> Cardinality(VisitedFor(m, total))]

\* the write index particle i is given: its mesh's counter when forEach
\* reaches it
WriteIndexAt == [i \in TrackedIndices |-> Cardinality(VisitedFor(MeshOf(ItemTypes[i]), i))]

\* what is written for particle k from dummy
PoseOf(q) ==
    [mesh |-> MeshOf(q.type),
     index |-> WriteIndexAt[k],
     position |-> q.position,
     rotation |-> q.rotation,
     scale |-> Scale(q.type, q.filtered)]

----------------------------------------------------------------------------
\* The state machine

\* the chat state after the first render of App
InitChatState ==
    /\ messages = <<[role |-> "model", text |-> <<"Hello! I am BioGuide.">>]>>
    /\ input = <<>>
    /\ isTyping = FALSE
    /\ request = <<>>

\* the state after construction, for a given App state
InitWith(state) ==
    /\ simulationState = state
    /\ k \in TrackedIndices
    /\ \E dir \in Directions, ur \in RadiusDraws, uz \in AxialDraws,
          uvx \in JitterDraws, uvy \in JitterDraws, uvz \in AxialDraws,
          rot \in RotationDraws, urs \in SpinDraws :
            p = NewParticle(k, dir, ur, uz, uvx, uvy, uvz, rot, urs)
    /\ writeIdx = [m \in Meshes |-> 0]
    /\ pose = <<>>
    /\ delta = 0
    /\ lastFrame = "none"
    /\ age = 0
    /\ InitChatState
    /\ order = "index"
    /\ clock = 0

Init ==
    /\ InitWith([flowRate |-> 10, particleDensity |-> 300, isRunning |-> TRUE])
    /\ twin = <<>>

\* App.toggleSimulation
toggleSimulation ==
    /\ simulationState' = [simulationState EXCEPT !.isRunning = ~@]
    /\ UNCHANGED <<k, p, writeIdx, pose, delta, lastFrame, age>>
    /\ UNCHANGED chatVars
    /\ UNCHANGED <<twin, order, clock>>

\* onChange of the flow slider
setFlowRate ==
    /\ \E f \in FlowRates : simulationState' = [simulationState EXCEPT !.flowRate = f]
    /\ UNCHANGED <<k, p, writeIdx, pose, delta, lastFrame, age>>
    /\ UNCHANGED chatVars
    /\ UNCHANGED <<twin, order, clock>>

\* FrameRuns without the pause gate
FrameRunsAlways == TRUE

\* the guard of the first line of useFrame
FrameRuns == simulationState.isRunning

\* the callback registered with useFrame, called with a frame's delta
useFrame ==
    \E dt \in Deltas :
        /\ delta' = dt
        /\ UNCHANGED <<simulationState, k>>
        /\ UNCHANGED chatVars
        /\ UNCHANGED <<twin, order, clock>>
        /\ IF ~FrameRuns
             THEN /\ lastFrame' = "skipped"
                  /\ UNCHANGED <<p, writeIdx, pose, age>>
             ELSE LET sm == SpeedMultiplier(simulationState.flowRate, dt)
                      q  == BeforeReset(p, sm)
                  IN  /\ age < MaxAge
                      /\ q.rotation.x <= MaxRotation
                      /\ IF LeftDomain(q)
                           THEN /\ \E dir \in Directions, ur \in RadiusDraws, uz \in AxialDraws,
                                      uvx \in JitterDraws, uvy \in JitterDraws, uvz \in AxialDraws :
                                        p' = Reset(q, dir, ur, uz, uvx, uvy, uvz)
                                /\ lastFrame' = IF q.position.z < END_Z
                                                  THEN "recycledDepth"
                                                  ELSE "recycledSide"
                                /\ age' = 0
                           ELSE /\ p' = q
                                /\ lastFrame' = "advanced"
                                /\ age' = age + 1
                      /\ writeIdx' = CountersAfterLoop
                      /\ pose' = <<PoseOf(p')>>

Next == toggleSimulation \/ setFlowRate \/ useFrame

Spec == Init /\ [][Next]_vars

----------------------------------------------------------------------------
\* Vocabulary of the properties

\* the last useFrame call ran the loop
Ran == lastFrame \in {"advanced", "recycledDepth", "recycledSide"}

\* a step of useFrame: the two controls are the only other actions, and each
\* changes simulationState or nothing
FrameStep == simulationState' = simulationState /\ vars' # vars

\* a step of useFrame that runs the loop
RunningFrameStep == FrameStep /\ simulationState.isRunning

\* the number of particles whose type is the member `name` of ParticleType
SpeciesCount(name) ==
    Cardinality({i \in DOMAIN ItemTypes : ItemTypes[i] = Member(name)})

IsSolid(q) == q.type # Member("WATER")

----------------------------------------------------------------------------
\* C1.  Population invariance and species immutability: in every state the
\* followed particle still has the species it was built with, and the number
\* of particles of each species is its initial value: WATER 500,
\* MICROPLASTIC 100, ALGAE 100, SEDIMENT 100, 800 in total.
C1_PopulationInvariance ==
    /\ p.type = ItemTypes[k]
    /\ SpeciesCount("WATER") = 500
    /\ SpeciesCount("MICROPLASTIC") = 100
    /\ SpeciesCount("ALGAE") = 100
    /\ SpeciesCount("SEDIMENT") = 100
    /\ Cardinality(DOMAIN ItemTypes) = 800

\* C2.  After every running frame each of the four meshes has received as
\* many setMatrixAt calls as its species has particles (water 500,
\* microplastic 100, algae 100, sediment 100), at write indices 0..count-1,
\* all below the capacity of the mesh.
C2_BatchWrites ==
    Ran =>
        /\ writeIdx["water"] = 500
        /\ writeIdx["plastic"] = 100
        /\ writeIdx["algae"] = 100
        /\ writeIdx["sediment"] = 100
        /\ \A m \in Meshes : writeIdx[m] - 1 < Capacity(m)
        /\ pose[1].mesh \in Meshes
        /\ pose[1].index < Capacity(pose[1].mesh)

\* C3.  At initialization the particles are partitioned by index into four
\* contiguous bands of four pairwise distinct species: 0..499 WATER,
\* 500..599 MICROPLASTIC, 600..699 ALGAE, 700..799 SEDIMENT.
C3_ContiguousBands ==
    LET W == Member("WATER")
        M == Member("MICROPLASTIC")
        A == Member("ALGAE")
        S == Member("SEDIMENT")
    IN  /\ Cardinality({W, M, A, S}) = 4
        /\ DOMAIN ItemTypes = 0..799
        /\ \A i \in 0..499 : ItemTypes[i] = W
        /\ \A i \in 500..599 : ItemTypes[i] = M
        /\ \A i \in 600..699 : ItemTypes[i] = A
        /\ \A i \in 700..799 : ItemTypes[i] = S
        /\ p.type = ItemTypes[k]

\* C4.  In the initial state and after every frame the particle has
\* END_Z <= position.z <= START_Z + 20 (-15 <= z <= 30), and so has every
\* position written to a mesh: a particle whose z drops below -15 during a
\* frame is reset in that frame, before its pose is written.
C4_DepthBounded ==
    /\ END_Z <= p.position.z
    /\ p.position.z <= START_Z + 20000
    /\ pose # <<>> =>
        /\ END_Z <= pose[1].position.z
        /\ pose[1].position.z <= START_Z + 20000

\* a frame has just reset the particle because its z had dropped below END_Z
C4_Witness ==
    /\ lastFrame = "recycledDepth"
    /\ pose[1].position = p.position

\* C5.  In the initial state and after the reset step of every frame the
\* particle has |x| <= 5 and |y| <= 5.
C5_LateralBounded ==
    /\ Abs(p.position.x) <= 5000
    /\ Abs(p.position.y) <= 5000

\* C6.  A frame with isRunning = false changes nothing: in every step taken
\* while paused the particle's record, the write counters and the written pose
\* stay what they were.
C6_PausedFrameIsNoOp ==
    [][~simulationState.isRunning => UNCHANGED <<p, writeIdx, pose>>]_vars

\* a paused frame has been called after frames that ran
C6_Witness ==
    /\ lastFrame = "skipped"
    /\ ~simulationState.isRunning
    /\ pose # <<>>
    /\ age > 0

\* The precondition of the containment property (C7) taken between frames: a
\* solid particle inside the interaction band with
\* distFromCenter >= currentConeRadius - 0.2.  No frame leaves a particle in
\* such a state: a frame that ends with a solid inside the band has run the
\* solid branch at that depth.
SolidAtWallBetweenFrames == IsSolid(p) /\ InBand(p) /\ TouchesWall(p)

NoSolidAtWallBetweenFrames == ~SolidAtWallBetweenFrames

\* The containment property taken inside the frame: a solid that is inside
\* the band and at the wall once it has been moved ends the frame within
\* currentConeRadius - 0.3 of the axis (plus 0.002 of rounding).
ContainmentAfterAdvection ==
    [][RunningFrameStep =>
        LET m == Rotate(MoveForward(p, SpeedMultiplier(simulationState.flowRate, delta')))
        IN  (IsSolid(m) /\ InBand(m) /\ TouchesWall(m)) =>
                /\ p'.position.z = m.position.z
                /\ DistFromCenter(p') <= ConeRadius(m.position.z) - 300 + 2]_vars

\* a solid has just been turned back at the wall
RicochetSeen ==
    /\ IsSolid(p) /\ InBand(p) /\ lastFrame = "advanced"
    /\ p.velocity.z < -1000

\* C8.  Permeation is one-way within a life: a step that takes the permeated
\* flag from true to false is a frame that recycles the particle; in every
\* other step a flag that is true stays true.
C8_PermeationOneWay ==
    [][(p.filtered /\ ~p'.filtered) =>
            (RunningFrameStep /\ lastFrame' \in {"recycledDepth", "recycledSide"})]_vars

\* a permeated water particle has carried its flag through the band and below it
C8_Witness ==
    /\ p.type = Member("WATER")
    /\ p.filtered
    /\ p.position.z < -10000
    /\ lastFrame = "advanced"

\* The scenario of C9: a MICROPLASTIC particle at (2.4, 0, 9) with no lateral
\* velocity, and a running frame with flowRate 1.0 and delta 0.1
ScenarioStep ==
    /\ p.type = Member("MICROPLASTIC")
    /\ p.position = [x |-> 2400, y |-> 0, z |-> 9000]
    /\ p.velocity.x = 0
    /\ p.velocity.y = 0
    /\ RunningFrameStep
    /\ simulationState.flowRate = 10
    /\ delta' = 100

\* C9 as claimed.  The frame of the scenario decreases z by about 0.05 and
\* reflects the particle to a distance from the axis of about
\* coneRadius(depth 1) - 0.3 = 2.05 ("about": within 0.025).
C9_ScenarioAsClaimed ==
    [][ScenarioStep =>
        /\ Abs((p.position.z - p'.position.z) - 50) <= 25
        /\ Abs(DistFromCenter(p') - (2350 - 300)) <= 25]_vars

\* C9 as amended.  The frame of the scenario decreases z by
\* |vz| * flowRate * 10 * delta = |vz|, between 0.5 and 1.0, which leaves z at
\* 8.0 or above, outside the interaction band; the particle is not reflected:
\* x = 2.4, y = 0 and the velocity are unchanged, and it is not recycled.
C9_ScenarioAmended ==
    [][ScenarioStep =>
        /\ p.velocity.z \in -1000..-500
        /\ p'.position.z = p.position.z + p.velocity.z
        /\ p'.position.z >= 8000
        /\ p'.position.x = 2400
        /\ p'.position.y = 0
        /\ p'.velocity = p.velocity
        /\ lastFrame' = "advanced"]_vars

\* the scenario's frame has been run from vz = -0.5
C9_Witness ==
    /\ p.type = Member("MICROPLASTIC")
    /\ p.position = [x |-> 2400, y |-> 0, z |-> 8500]
    /\ p.velocity = [x |-> 0, y |-> 0, z |-> -500]
    /\ simulationState.flowRate = 10
    /\ delta = 100
    /\ lastFrame = "advanced"
    /\ age = 3

\* C10.  In a running frame the particle is respawned if and only if, after
\* advection and cone interaction, z < -15 or |x| > 5.  A respawned particle
\* ends the frame with z in [10, 15], distance from the axis at most 2.5,
\* vz in [-1.0, -0.5], lateral velocity components in [-0.05, 0.05] and
\* permeated = false; the respawn leaves its species, rotation (as the frame's
\* rotate step left it) and rotationSpeed alone.  A particle that is not
\* respawned ends the frame as the cone interaction left it.
C10_Recycle ==
    [][RunningFrameStep =>
        LET q == BeforeReset(p, SpeedMultiplier(simulationState.flowRate, delta'))
            left == \/ q.position.z < -15000
                    \/ q.position.x > 5000
                    \/ q.position.x < -5000
        IN  /\ (lastFrame' \in {"recycledDepth", "recycledSide"}) <=> left
            /\ left =>
                /\ p'.position.z >= 10000 /\ p'.position.z <= 15000
                /\ p'.position.x * p'.position.x + p'.position.y * p'.position.y
                        <= 2500 * 2500
                /\ p'.velocity.z >= -1000 /\ p'.velocity.z <= -500
                /\ Abs(p'.velocity.x) <= 50 /\ Abs(p'.velocity.y) <= 50
                /\ p'.filtered = FALSE
                /\ p'.type = p.type
                /\ p'.rotation = q.rotation
                /\ p'.rotationSpeed = p.rotationSpeed
            /\ ~left => p' = q]_vars

\* a frame has just respawned a particle that had drifted past |x| = 5
C10_Witness ==
    /\ lastFrame = "recycledSide"
    /\ age = 0
    /\ pose[1].position = p.position

\* C11.  The render scale written for a particle depends only on its species
\* and its permeated flag: WATER 0.08 (0.008 when permeated), MICROPLASTIC
\* 0.15, ALGAE 0.12, SEDIMENT 0.10; the permeated factor is never applied to
\* a solid.
C11_RenderScale ==
    pose # <<>> =>
        /\ p.type = Member("WATER") => pose[1].scale = IF p.filtered THEN 8 ELSE 80
        /\ p.type = Member("MICROPLASTIC") => pose[1].scale = 150
        /\ p.type = Member("ALGAE") => pose[1].scale = 120
        /\ p.type = Member("SEDIMENT") => pose[1].scale = 100

\* the particle as a running frame has moved it, before the cone interaction
Advected(q) == MoveForward(q, SpeedMultiplier(simulationState.flowRate, delta'))

\* a step of useFrame that runs the loop and does not respawn the particle
AdvancingFrameStep == RunningFrameStep /\ lastFrame' = "advanced"

\* C14.  Water permeation rule.  In a running frame that does not recycle it,
\* a WATER particle's velocity is modified (0.05 added along the outward
\* radial direction, vz multiplied by 0.9) exactly when, after advection, it
\* is inside the band -10 < z < 5, not yet permeated, and farther from the
\* axis than 0.8 * coneRadius; its flag becomes true in that frame exactly
\* when it is in addition farther than coneRadius; otherwise (already
\* permeated, or outside the band, or within the ring) velocity and flag stay
\* as they were.
C14_WaterPermeation ==
    [][(AdvancingFrameStep /\ p.type = Member("WATER")) =>
        LET m   == Advected(p)
            cr  == ConeRadius(m.position.z)
            d2  == m.position.x * m.position.x + m.position.y * m.position.y
            hit == /\ m.position.z < 5000 /\ m.position.z > -10000
                   /\ ~p.filtered
                   /\ 25 * d2 > 16 * cr * cr
        IN  /\ p'.position = m.position
            /\ hit =>
                /\ p'.velocity.x = p.velocity.x
                        + RoundDiv(CosAtan2(m.position.y, m.position.x) * 50, 1000)
                /\ p'.velocity.y = p.velocity.y
                        + RoundDiv(SinAtan2(m.position.y, m.position.x) * 50, 1000)
                /\ p'.velocity.z = RoundDiv(p.velocity.z * 9, 10)
                /\ p'.filtered = (d2 > cr * cr)
            /\ ~hit =>
                /\ p'.velocity = p.velocity
                /\ p'.filtered = p.filtered]_vars

\* a water particle inside the band has been pushed outward and slowed, and
\* has not permeated yet
C14_Witness ==
    /\ p.type = Member("WATER")
    /\ InBand(p)
    /\ ~p.filtered
    /\ p.velocity.z > -500
    /\ lastFrame = "advanced"

\* C15.  Solid interaction rule.  In a running frame that does not recycle
\* it, a solid that after advection is inside the band -10 < z < 5 has its x
\* and y multiplied by 0.99, whether or not it touches the wall (when it
\* does, x and y are first put at coneRadius - 0.3 from the axis); its
\* velocity is changed (0.5 subtracted along the outward radial direction, vz
\* multiplied by 1.1) only when distFromCenter >= coneRadius - 0.2.  A solid
\* outside the band has its position changed only by advection and its
\* velocity unchanged.
C15_SolidInteraction ==
    [][(AdvancingFrameStep /\ p.type # Member("WATER")) =>
        LET m    == Advected(p)
            cr   == ConeRadius(m.position.z)
            d2   == m.position.x * m.position.x + m.position.y * m.position.y
            band == m.position.z < 5000 /\ m.position.z > -10000
            wall == d2 >= (cr - 200) * (cr - 200)
            c    == CosAtan2(m.position.y, m.position.x)
            s    == SinAtan2(m.position.y, m.position.x)
            wx   == IF wall THEN RoundDiv(c * (cr - 300), 1000) ELSE m.position.x
            wy   == IF wall THEN RoundDiv(s * (cr - 300), 1000) ELSE m.position.y
        IN  /\ p'.position.z = m.position.z
            /\ band =>
                /\ p'.position.x = wx - RoundDiv(wx, 100)
                /\ p'.position.y = wy - RoundDiv(wy, 100)
                /\ wall =>
                    /\ p'.velocity.x = p.velocity.x - RoundDiv(c * 500, 1000)
                    /\ p'.velocity.y = p.velocity.y - RoundDiv(s * 500, 1000)
                    /\ p'.velocity.z = RoundDiv(p.velocity.z * 11, 10)
                /\ ~wall => p'.velocity = p.velocity
            /\ ~band =>
                /\ p'.position = m.position
                /\ p'.velocity = p.velocity]_vars

\* a solid inside the band has been focused without ever touching the wall
C15_Witness ==
    /\ p.type # Member("WATER")
    /\ InBand(p)
    /\ lastFrame = "advanced"
    /\ Abs(p.velocity.x) <= 50 /\ Abs(p.velocity.y) <= 50
    /\ p.velocity.z >= -1000
    /\ p.position.x # 0
    /\ age >= 3

\* C18.  The axial velocity vz is strictly negative in every reachable state,
\* and in a running frame that does not recycle the particle z does not
\* increase.
C18_AxialVelocityNegative ==
    /\ [](p.velocity.z < 0)
    /\ [][AdvancingFrameStep => p'.position.z <= p.position.z]_vars

\* the particle has gone on down the cone after its axial velocity was
\* multiplied (by 1.1 at the wall or by 0.9 in the permeation ring)
C18_Witness ==
    /\ p.velocity.z > -500 \/ p.velocity.z < -1000
    /\ p.position.z < 0
    /\ lastFrame = "advanced"
    /\ age >= 4

----------------------------------------------------------------------------
\* The chat of App and askBiomimicryExpert (src/services/geminiService.ts)

\* bound: non-blank submissions of one behaviour
MaxSubmissions == 3

\* characters that String.prototype.trim removes
Whitespace == {" ", "\t"}

\* values the chat input is given by onChange
ChatInputs ==
    { <<>>, <<" ">>, <<" ", "\t">>, <<"h", "i">>, <<" ", "h", "i", " ">> }

\* what ai.models.generateContent does: it returns a response whose text is
\* non-empty or empty, or it throws
RemoteOutcomes ==
    { [kind |-> "response", text |-> <<"Cross-flow keeps the wall clean.">>],
      [kind |-> "response", text |-> <<>>],
      [kind |-> "throw"] }

RECURSIVE TrimStart(_)
TrimStart(s) ==
    IF s # <<>> /\ Head(s) \in Whitespace THEN TrimStart(Tail(s)) ELSE s

RECURSIVE TrimEnd(_)
TrimEnd(s) ==
    IF s # <<>> /\ s[Len(s)] \in Whitespace
        THEN TrimEnd(SubSeq(s, 1, Len(s) - 1))
        ELSE s

\* input.trim()
Trim(s) == TrimEnd(TrimStart(s))

\* askBiomimicryExpert without its catch block: the promise rejects when
\* generateContent throws
askBiomimicryExpertNoCatch(outcome) ==
    IF outcome.kind = "throw"
        THEN [state |-> "rejected"]
        ELSE [state |-> "fulfilled",
              value |-> IF outcome.text # <<>>
                          THEN outcome.text
                          ELSE <<"I couldn't process that request right now.">>]

\* how the promise of askBiomimicryExpert settles, given what generateContent
\* does
askBiomimicryExpert(outcome) ==
    IF outcome.kind = "throw"
        THEN [state |-> "fulfilled",
              value |-> <<"The bio-simulation interface is currently offline. Please check your connection.">>]
        ELSE [state |-> "fulfilled",
              value |-> IF outcome.text # <<>>
                          THEN outcome.text
                          ELSE <<"I couldn't process that request right now.">>]

\* number of messages of a role
CountRole(role) == Cardinality({i \in DOMAIN messages : messages[i].role = role})

\* onChange of the chat input
setInput ==
    /\ \E s \in ChatInputs : input' = s
    /\ UNCHANGED <<messages, isTyping, request>>
    /\ UNCHANGED simVars
    /\ UNCHANGED <<twin, order, clock>>

\* App.handleSendMessage up to its await
handleSendMessage ==
    IF Trim(input) = <<>>
        THEN UNCHANGED vars
        ELSE /\ CountRole("user") < MaxSubmissions
             /\ messages' = Append(messages, [role |-> "user", text |-> input])
             /\ input' = <<>>
             /\ isTyping' = TRUE
             /\ request' = Append(request, [prompt |-> input, context |-> simulationState])
             /\ UNCHANGED simVars
             /\ UNCHANGED <<twin, order, clock>>

\* the promise of one awaited askBiomimicryExpert call settles, and
\* handleSendMessage goes on after its await
askBiomimicryExpertSettles ==
    \E i \in DOMAIN request, outcome \in RemoteOutcomes :
        LET settled == askBiomimicryExpert(outcome)
        IN  /\ request' = SubSeq(request, 1, i - 1) \o SubSeq(request, i + 1, Len(request))
            /\ IF settled.state = "fulfilled"
                 THEN /\ messages' = Append(messages, [role |-> "model", text |-> settled.value])
                      /\ isTyping' = FALSE
                 ELSE UNCHANGED <<messages, isTyping>>
            /\ UNCHANGED input
            /\ UNCHANGED simVars
            /\ UNCHANGED <<twin, order, clock>>

\* the chat is used while the simulator stands at one initial state
InitChat ==
    /\ Init
    /\ k = 0
    /\ p = NewParticle(0, <<1000, 0>>, 500, 0, 500, 500, 0, [x |-> 500, y |-> 990, z |-> 0], 0)

NextChat == setInput \/ handleSendMessage \/ askBiomimicryExpertSettles

\* every awaited call settles: the request made by generateContent completes
\* or fails
SpecChat == InitChat /\ [][NextChat]_vars /\ WF_vars(askBiomimicryExpertSettles)

\* a step that changes the message list appends one message; a user message
\* is appended only for a non-blank input, with the input cleared and the
\* typing indicator set; a model message clears the typing indicator
ChatStep ==
    /\ Trim(input) = <<>> =>
          (CountRole("user")' = CountRole("user") /\ Len(request') <= Len(request))
    /\ messages' # messages =>
          /\ Len(messages') = Len(messages) + 1
          /\ SubSeq(messages', 1, Len(messages)) = messages
          /\ LET new == messages'[Len(messages')]
             IN  IF new.role = "user"
                   THEN /\ new.text = input
                        /\ input' = <<>>
                        /\ isTyping'
                        /\ Len(request') = Len(request) + 1
                   ELSE /\ new.text \in
                            { <<"Cross-flow keeps the wall clean.">>,
                              <<"I couldn't process that request right now.">>,
                              <<"The bio-simulation interface is currently offline. Please check your connection.">> }
                        /\ ~isTyping'
                        /\ Len(request') = Len(request) - 1

\* C17.  Chat request/response.  A submission of blank or whitespace-only
\* input changes nothing; a non-blank submission appends exactly one user
\* message and is eventually followed by exactly one appended model message
\* and by isTyping being false again, whatever generateContent does (text,
\* empty text or a failure), because askBiomimicryExpert always resolves to a
\* string; the message list only grows by appending.
C17_ChatRequestResponse ==
    /\ [][ChatStep]_vars
    /\ [](CountRole("model") + Len(request) = CountRole("user") + 1)
    /\ \A n \in 1..MaxSubmissions :
          (CountRole("user") >= n) ~> (CountRole("model") >= n + 1)
    /\ isTyping ~> ~isTyping

\* two submissions were answered, one after a failure of the remote call and
\* one after an empty response, while a whitespace-only input is in the field
C17_Witness ==
    /\ CountRole("user") = 2
    /\ request = <<>>
    /\ ~isTyping
    /\ \E i \in DOMAIN messages :
          messages[i] = [role |-> "model",
                         text |-> <<"The bio-simulation interface is currently offline. Please check your connection.">>]
    /\ \E i \in DOMAIN messages :
          messages[i] = [role |-> "model",
                         text |-> <<"I couldn't process that request right now.">>]
    /\ input = <<" ", "\t">>

----------------------------------------------------------------------------
\* The frame as a function of the props of AdvancedParticleSystem

\* bound: running frames over which the two runs are compared
MaxTwinFrames == 8

\* values the density slider gives particleDensity (min 50, max 1000, step 50)
Densities == {50, 300, 1000}

\* the props App passes to AdvancedParticleSystem
Props(state) ==
    [flowRate |-> state.flowRate,
     density |-> state.particleDensity,
     isRunning |-> state.isRunning]

\* FrameParticle with a speed proportional to the density prop
FrameParticleDensityScaled(props, q, dt, dir, ur, uz, uvx, uvy, uvz) ==
    IF ~props.isRunning
        THEN q
        ELSE LET b == BeforeReset(q, SpeedMultiplier((props.flowRate * props.density) \div 300, dt))
             IN  IF LeftDomain(b) THEN Reset(b, dir, ur, uz, uvx, uvy, uvz) ELSE b

\* particle q after one call of the useFrame callback of a component with
\* these props, with the draws a respawn would use
FrameParticle(props, q, dt, dir, ur, uz, uvx, uvy, uvz) ==
    IF ~props.isRunning
        THEN q
        ELSE LET b == BeforeReset(q, SpeedMultiplier(props.flowRate, dt))
             IN  IF LeftDomain(b) THEN Reset(b, dir, ur, uz, uvx, uvy, uvz) ELSE b

\* the path that call takes for particle q
FramePath(props, q, dt) ==
    IF ~props.isRunning
        THEN "skipped"
        ELSE LET b == BeforeReset(q, SpeedMultiplier(props.flowRate, dt))
             IN  IF ~LeftDomain(b) THEN "advanced"
                 ELSE IF b.position.z < END_Z THEN "recycledDepth" ELSE "recycledSide"

----------------------------------------------------------------------------
\* Two runs that differ only in their density values.  The second run keeps
\* the initial density and the first takes every sequence of slider values:
\* two runs with arbitrary sequences are each compared with that same run.

\* onChange of the density slider
setDensity ==
    /\ \E d \in Densities :
          simulationState' = [simulationState EXCEPT !.particleDensity = d]
    /\ UNCHANGED <<k, p, writeIdx, pose, delta, lastFrame, age>>
    /\ UNCHANGED chatVars
    /\ UNCHANGED <<twin, order, clock>>

\* one useFrame call in each of the two runs, with the same delta, the same
\* flowRate and isRunning, and the same draws (which only a respawn reads)
useFrameTwice ==
    \E dt \in Deltas :
        LET props  == Props(simulationState)
            props2 == Props([simulationState EXCEPT !.particleDensity = twin.particleDensity])
            path   == FramePath(props, p, dt)
            path2  == FramePath(props2, twin.p, dt)
            drawn  == {path, path2} \cap {"recycledDepth", "recycledSide"} # {}
        IN  /\ delta' = dt
            /\ UNCHANGED <<simulationState, k, order, clock>>
            /\ UNCHANGED chatVars
            /\ props.isRunning => twin.frames < MaxTwinFrames
            /\ \E dir \in IF drawn THEN Directions ELSE {<<1000, 0>>},
                  ur \in IF drawn THEN RadiusDraws ELSE {0},
                  uz \in IF drawn THEN AxialDraws ELSE {0},
                  uvx \in IF drawn THEN JitterDraws ELSE {0},
                  uvy \in IF drawn THEN JitterDraws ELSE {0},
                  uvz \in IF drawn THEN AxialDraws ELSE {0} :
                    LET q  == FrameParticle(props, p, dt, dir, ur, uz, uvx, uvy, uvz)
                        q2 == FrameParticle(props2, twin.p, dt, dir, ur, uz, uvx, uvy, uvz)
                    IN  /\ p' = q
                        /\ pose' = IF props.isRunning THEN <<PoseOf(q)>> ELSE pose
                        /\ twin' = [twin EXCEPT
                                      !.p = q2,
                                      !.frames = IF props.isRunning THEN @ + 1 ELSE @,
                                      !.pose = IF props2.isRunning THEN <<PoseOf(q2)>> ELSE @]
            /\ lastFrame' = path
            /\ age' = IF path = "advanced" THEN age + 1
                      ELSE IF path = "skipped" THEN age ELSE 0
            /\ writeIdx' = IF props.isRunning THEN CountersAfterLoop ELSE writeIdx

\* the two runs start from the same particle state
InitTwin ==
    /\ InitWith([flowRate |-> 10, particleDensity |-> 300, isRunning |-> TRUE])
    /\ twin = [particleDensity |-> 300, p |-> p, pose |-> <<>>, frames |-> 0]
    /\ k \in {0, 500}
    /\ p.velocity.x = 0
    /\ p.velocity.y = 0
    /\ p.rotationSpeed = 0

NextTwin == toggleSimulation \/ setFlowRate \/ setDensity \/ useFrameTwice

SpecTwin == InitTwin /\ [][NextTwin]_vars

\* C13.  The particleDensity control has no effect on the simulation: two runs
\* that start from the same particle state and get the same deltas, flowRate,
\* isRunning and random draws, but any density values, have identical
\* particle states and identical outputs after every frame.
C13_DensityHasNoEffect ==
    /\ twin.p = p
    /\ twin.pose = pose

\* the two runs have different densities and have just recycled the particle
\* after it went down the cone
C13_Witness ==
    /\ simulationState.particleDensity = 1000
    /\ twin.particleDensity = 300
    /\ twin.pose # <<>>
    /\ lastFrame = "recycledDepth"
    /\ pose # <<>>

----------------------------------------------------------------------------
\* The loop of useFrame with its iterations run in another order

\* visiting orders: that of particles.forEach, its reverse, and one that
\* visits the indices from COUNT_WATER on before the others
Orders == {"index", "reverse", "solidsFirst"}

\* the place of particle i in a visiting order
VisitRank(o, i) ==
    CASE o = "index" -> i
      [] o = "reverse" -> total - 1 - i
      [] o = "solidsFirst" -> IF i >= COUNT_WATER THEN i - COUNT_WATER
                                                  ELSE i + (total - COUNT_WATER)

\* VisitedBefore with one counter shared by the four meshes
VisitedBeforeAnyMesh(o, m, i) ==
    {j \in 0..(total - 1) : VisitRank(o, j) < VisitRank(o, i)}

\* the particles dispatched to mesh m that are visited before particle i
VisitedBefore(o, m, i) ==
    {j \in 0..(total - 1) : MeshOf(ItemTypes[j]) = m /\ VisitRank(o, j) < VisitRank(o, i)}

\* the write index particle i is given under each order: its mesh's counter
\* when the loop reaches it
WriteIndexUnder ==
    [o \in Orders |->
        [i \in TrackedIndices |-> Cardinality(VisitedBefore(o, MeshOf(ItemTypes[i]), i))]]

\* one useFrame call whose loop visits the particles in some order
useFrameInOrder ==
    \E dt \in Deltas, o \in Orders :
        LET props == Props(simulationState)
            path  == FramePath(props, p, dt)
            drawn == path \in {"recycledDepth", "recycledSide"}
        IN  /\ delta' = dt
            /\ UNCHANGED <<simulationState, k, twin, clock>>
            /\ UNCHANGED chatVars
            /\ props.isRunning => age < MaxAge
            /\ order' = IF props.isRunning THEN o ELSE order
            /\ \E dir \in IF drawn THEN Directions ELSE {<<1000, 0>>},
                  ur \in IF drawn THEN RadiusDraws ELSE {0},
                  uz \in IF drawn THEN AxialDraws ELSE {0},
                  uvx \in IF drawn THEN JitterDraws ELSE {0},
                  uvy \in IF drawn THEN JitterDraws ELSE {0},
                  uvz \in IF drawn THEN AxialDraws ELSE {0} :
                    LET q == FrameParticle(props, p, dt, dir, ur, uz, uvx, uvy, uvz)
                    IN  /\ p' = q
                        /\ pose' = IF props.isRunning
                                     THEN <<[PoseOf(q) EXCEPT !.index = WriteIndexUnder[o][k]]>>
                                     ELSE pose
            /\ lastFrame' = path
            /\ age' = IF path = "advanced" THEN age + 1
                      ELSE IF path = "skipped" THEN age ELSE 0
            /\ writeIdx' = IF props.isRunning THEN CountersAfterLoop ELSE writeIdx

InitOrder == Init /\ p.rotationSpeed = 0

NextOrder == toggleSimulation \/ useFrameInOrder

SpecOrder == InitOrder /\ [][NextOrder]_vars

----------------------------------------------------------------------------
\* The simulator left running, with no bound on a particle's life

\* one useFrame call, with no bound on the frames of a life
useFrameUnbounded ==
    \E dt \in Deltas :
        LET props == Props(simulationState)
            path  == FramePath(props, p, dt)
            drawn == path \in {"recycledDepth", "recycledSide"}
        IN  /\ delta' = dt
            /\ UNCHANGED <<simulationState, k, twin, order>>
            /\ clock' = 1 - clock
            /\ UNCHANGED chatVars
            /\ \E dir \in IF drawn THEN Directions ELSE {<<1000, 0>>},
                  ur \in IF drawn THEN RadiusDraws ELSE {0},
                  uz \in IF drawn THEN AxialDraws ELSE {0},
                  uvx \in IF drawn THEN JitterDraws ELSE {0},
                  uvy \in IF drawn THEN JitterDraws ELSE {0},
                  uvz \in IF drawn THEN AxialDraws ELSE {0} :
                    LET q == FrameParticle(props, p, dt, dir, ur, uz, uvx, uvy, uvz)
                    IN  /\ p' = q
                        /\ pose' = IF props.isRunning THEN <<PoseOf(q)>> ELSE pose
            /\ lastFrame' = path
            /\ age' = IF path = "advanced" THEN (IF age < MaxAge THEN age + 1 ELSE age)
                      ELSE IF path = "skipped" THEN age ELSE 0
            /\ writeIdx' = IF props.isRunning THEN CountersAfterLoop ELSE writeIdx

\* the flow slider stands at any of its values and is left there; particles
\* that do not spin, whose rotation stays what it was built with
InitLive ==
    /\ \E f \in FlowRates :
          InitWith([flowRate |-> f, particleDensity |-> 300, isRunning |-> TRUE])
    /\ twin = <<>>
    /\ p.rotationSpeed = 0

NextLive == useFrameUnbounded

\* the host keeps rendering frames: every frame advances its clock
SpecLive == InitLive /\ [][NextLive]_vars /\ WF_clock(clock' = 1 - clock)

\* C16.  Cyclical lifecycle.  While the simulation keeps running, with frames
\* of a delta bounded below and flowRate between 0.1 and 5.0, the particle is
\* eventually recycled, and so recycled infinitely often; the x0.9 damping of
\* a water particle near the wall never leaves it inside the domain forever.
C16_RecycledInfinitelyOften ==
    []<>(lastFrame \in {"recycledDepth", "recycledSide"})

\* a water particle has been recycled at the far end with flowRate 1.0, which
\* takes a life of more than MaxAge frames
C16_Witness ==
    /\ lastFrame = "recycledDepth"
    /\ p.type = Member("WATER")
    /\ simulationState.flowRate = 10
    /\ age = 0

====
